---- MODULE Spec2Model ----
(***************************************************************************)
(* Alerta: a modal message dialog on an X11 connection.                    *)
(*                                                                         *)
(*   - Ui::new           (crates/alerta/src/ui.rs)   window/button layout  *)
(*   - Ui::process_event (crates/alerta/src/ui.rs)   interaction machine   *)
(*   - X11Window         (crates/alerta/src/x11.rs)  requests and events   *)
(*                                                                         *)
(* Option<T> is a sequence of length 0 (None) or 1 (Some).                 *)
(***************************************************************************)
EXTENDS Integers, Sequences, FiniteSets, TLC

---------------------------------------------------------------------------
(* The values of the model. Every record is written with its fields in the *)
(* order they are introduced here.                                         *)

None == <<>>
Some(v) == <<v>>
IsSome(o) == Len(o) = 1
Unwrap(o) == o[1]

\* euclid::point2 and size2
point2(px, py) == [x |-> px, y |-> py]
size2(w, h) == [width |-> w, height |-> h]

\* A WindowEvent; the fields a variant does not carry rest at a default.
WEv(k, p, b) == [kind |-> k, pos |-> p, button |-> b]

\* struct Button (without the rendered text)
Btn(p, m, sz) == [pos |-> p, min_size |-> m, size |-> sz]

\* struct Ui, as it is before Ui::new has run.
NoUi ==
    [canvas |-> size2(0, 0), icon |-> size2(0, 0), icon_pos |-> point2(0, 0),
     message |-> size2(0, 0), message_pos |-> point2(0, 0), buttons |-> <<>>,
     cursor_pos |-> None, mouse_pressed |-> FALSE, mouse_dragging |-> FALSE]

\* The arguments of Ui::new, each text given by its rendered size.
NoInputs == [icon |-> size2(0, 0), message |-> size2(0, 0), labels |-> <<>>]

\* What process_event leaves: the struct and the returned Option<Answer>.
Ret(u, r) == [ui |-> u, ret |-> r]

\* The interaction state a call of process_event started from.
NoPre ==
    [mouse_pressed |-> FALSE, mouse_dragging |-> FALSE,
     held |-> "none", sincePress |-> "none", drag0 |-> "no"]

\* A native x11 Event; the fields a type does not carry rest at a default.
XEv(ty, win, det, st, at, cnt, ex, ey, req) ==
    [x |-> ex, y |-> ey, type |-> ty, window |-> win, detail |-> det, state |-> st,
     atom |-> at, count |-> cnt, request |-> req]

\* What a run of requests leaves: the errors of the unchecked requests, which
\* arrive later as events, and the request whose error was returned, if any.
Ran(q, e) == [queued |-> q, err |-> e]

\* A placed ab_glyph Glyph: its position and the character it draws.
Glyph(gx, gy, c) == [x |-> gx, y |-> gy, char |-> c]

\* The locals of Renderer::layout before the first character, with a record of
\* the last step: the pen x it reached before any soft break, the index it
\* broke at, the text position of the last soft break of the hard line, and
\* the number of soft breaks so far.
NoLay ==
    [pen_x |-> 0, pen_y |-> 0, last_softbreak |-> None, last |-> None, glyphs |-> <<>>,
     placed_x |-> 0, moved |-> None, broke_at |-> 0, softbreaks |-> 0]

---------------------------------------------------------------------------

VARIABLES
    stage,          \* progress of Ui::new ("args", "built", "panicked"), of layout and of the upload
    inputs,         \* the arguments of Ui::new: icon, message and label text sizes
    ui,             \* the Ui struct
    event,          \* Option<WindowEvent>: the event last given to process_event
    answer,         \* Option<Answer>: what that call returned
    pre,            \* the interaction state that call started from
    ptr,            \* Option<point>: where the pointer was last reported
    held,           \* "none" | "clean" | "moved": since the first unreleased left press
    sincePress,     \* "none" | "clean" | "moved": since the latest left press
    drag0,          \* "no" | "pressedIn0" | "out": a press in button 0 dragged outside
    xev,            \* Option<x11 Event>: the native event last given to cvt_event
    wev,            \* Option<WindowEvent>: what cvt_event returned for it
    pc,             \* the session's position in create/show/event loop
    queue,          \* errors of unchecked requests, waiting in the event queue
    failed,         \* the requests the server has failed
    discarded,      \* the failed requests whose error the event loop dropped
    result,         \* Option: the session's Result<Answer, Error>
    status,         \* Option: the exit status of the process
    text,           \* the characters Renderer::layout is given
    max_width,      \* Renderer.max_width
    idx,            \* the position in text of the next character (from 1)
    lay,            \* the locals of Renderer::layout
    was,            \* those locals before the last character was laid out
    bounds          \* Option<size>: the union of the glyphs' pixel bounds

vars == <<stage, inputs, ui, event, answer, pre, ptr, held, sincePress, drag0,
          xev, wev, pc, queue, failed, discarded, result, status,
          text, max_width, idx, lay, was, bounds>>

uiVars == <<event, answer, pre, ptr, held, sincePress, drag0>>
cvtVars == <<xev, wev>>
sessionVars == <<pc, queue, failed, discarded, result, status>>
renderVars == <<text, max_width, idx, lay, was, bounds>>

---------------------------------------------------------------------------
(* Bounds of the model. *)

MaxButtons == 3
MaxLabelK == 2
MaxIconK == 1
MaxMsgK == 2

---------------------------------------------------------------------------
(* Program constants. *)

WINDOW_PADDING == 10
BTN_PADDING == 12
SPACING == 10
MIN_WIDTH == 400
MIN_HEIGHT == 100

---------------------------------------------------------------------------
(* Values. *)

Max(a, b) == IF a >= b THEN a ELSE b

\* Rust's integer division truncates toward zero.
Div(a, b) ==
    IF (a >= 0) = (b > 0) THEN (IF a >= 0 THEN a ELSE -a) \div (IF b > 0 THEN b ELSE -b)
    ELSE -((IF a >= 0 THEN a ELSE -a) \div (IF b > 0 THEN b ELSE -b))

RECURSIVE SumWidths(_)
SumWidths(s) == IF s = <<>> THEN 0 ELSE s[1].min_size.width + SumWidths(Tail(s))

RECURSIVE MaxHeight(_)
MaxHeight(s) == IF s = <<>> THEN 0 ELSE Max(s[1].min_size.height, MaxHeight(Tail(s)))

\* usize::saturating_sub
saturating_sub(a, b) == IF a >= b THEN a - b ELSE 0

---------------------------------------------------------------------------
(* Ui::new: the layout. *)

\* The button a label becomes in the first pass: only min_size is known.
MinButton(txt) ==
    Btn(point2(0, 0),
        size2(txt.width + 2 * BTN_PADDING, txt.height + 2 * BTN_PADDING),
        size2(0, 0))

MinButtons(labels) == [k \in 1..Len(labels) |-> MinButton(labels[k])]

\* Mutant: the division rounds up instead of truncating.
BtnWidthRoundsUp(win_width, count) ==
    Div(win_width - WINDOW_PADDING * 2 - SPACING * (count - 1) + count - 1, count)

\* Mutant: the window padding is not taken off the free width.
BtnWidthNoPadding(win_width, count) ==
    Div(win_width - SPACING * (count - 1), count)

\* The division of the free width among the buttons.
BtnWidth(win_width, count) ==
    Div(win_width - WINDOW_PADDING * 2 - SPACING * (count - 1), count)

WinWidth(icon, message, buttons) ==
    LET width_sum == SumWidths(buttons)
        required_width ==
            width_sum + 2 * WINDOW_PADDING + saturating_sub(Len(buttons), 1) * SPACING
    IN  Max(Max(MIN_WIDTH, icon.width + SPACING + message.width + 2 * WINDOW_PADDING),
            required_width)

WinHeight(icon, message, btn_height) ==
    LET win_height_message == message.height + btn_height + SPACING + 2 * WINDOW_PADDING
        win_height_icon == icon.height + btn_height + SPACING * 2 + WINDOW_PADDING
    IN  Max(MIN_HEIGHT, Max(win_height_message, win_height_icon))

\* Mutant: the message is centred in the whole window height.
MessagePosWholeWindow(icon, message, win_height, btn_height) ==
    point2(icon.width + WINDOW_PADDING + SPACING, Div(win_height - message.height, 2))

MessagePos(icon, message, win_height, btn_height) ==
    LET message_pos_x == icon.width + WINDOW_PADDING + SPACING
        message_space_y == win_height - btn_height - WINDOW_PADDING * 2 - SPACING
        message_pos_y == Div(message_space_y - message.height, 2) + WINDOW_PADDING
    IN  point2(message_pos_x, message_pos_y)

\* The loop that sizes and places the buttons left to right.
PlaceButtons(buttons, btn_width, btn_height, win_height) ==
    [k \in 1..Len(buttons) |->
        Btn(point2(WINDOW_PADDING + (k - 1) * (btn_width + SPACING),
                   win_height - WINDOW_PADDING - btn_height),
            buttons[k].min_size,
            size2(btn_width, btn_height))]

\* Ui::new for a non-empty label list.
UiNew(in) ==
    LET buttons == MinButtons(in.labels)
        btn_height == MaxHeight(buttons)
        win_width == WinWidth(in.icon, in.message, buttons)
        win_height == WinHeight(in.icon, in.message, btn_height)
        btn_width == BtnWidth(win_width, Len(buttons))
    IN  [canvas |-> size2(win_width, win_height),
         icon |-> in.icon,
         icon_pos |-> point2(WINDOW_PADDING, WINDOW_PADDING),
         message |-> in.message,
         message_pos |-> MessagePos(in.icon, in.message, win_height, btn_height),
         buttons |-> PlaceButtons(buttons, btn_width, btn_height, win_height),
         cursor_pos |-> None,
         mouse_pressed |-> FALSE,
         mouse_dragging |-> FALSE]

---------------------------------------------------------------------------
(* Window events and answers. *)

Closed == <<"Closed">>
Button(i) == <<"Button", i>>

CloseRequested == WEv("CloseRequested", None, "")
RedrawRequested == WEv("RedrawRequested", None, "")
CursorEnter(p) == WEv("CursorEnter", Some(p), "")
CursorMove(p) == WEv("CursorMove", Some(p), "")
CursorLeave == WEv("CursorLeave", None, "")
ButtonPress(b) == WEv("ButtonPress", None, b)
ButtonRelease(b) == WEv("ButtonRelease", None, b)

MouseButtons == {"Left", "Middle", "Right"}

---------------------------------------------------------------------------
(* Ui::process_event: the interaction state machine. *)

\* Mutant: the left and top edges are excluded.
ContainsStrictEdges(btn, pt) ==
    /\ pt.x > btn.pos.x
    /\ pt.y > btn.pos.y
    /\ pt.x < btn.pos.x + btn.size.width
    /\ pt.y < btn.pos.y + btn.size.height

\* Button::contains
Contains(btn, pt) ==
    /\ pt.x >= btn.pos.x
    /\ pt.y >= btn.pos.y
    /\ pt.x < btn.pos.x + btn.size.width
    /\ pt.y < btn.pos.y + btn.size.height

\* buttons.iter().position(|btn| btn.contains(p)): the first index, from 0.
Position(buttons, p) ==
    LET hits == {k \in 1..Len(buttons) : Contains(buttons[k], p)}
    IN  IF hits = {} THEN None
        ELSE Some((CHOOSE k \in hits : \A j \in hits : k <= j) - 1)

\* Mutant: a close request is ignored while the left button is held.
OnCloseRequestedUnlessPressed(u) ==
    IF u.mouse_pressed THEN Ret(u, None) ELSE Ret(u, Some(Closed))

OnCloseRequested(u) == Ret(u, Some(Closed))

\* Mutant: a move leaves mouse_dragging as it was.
OnCursorKeepsDragging(u, pos) ==
    Ret([u EXCEPT !.cursor_pos = Some(point2(pos.x, pos.y))], None)

\* Mutant: every move counts as a drag, pressed or not.
OnCursorSetsDragging(u, pos) ==
    Ret([u EXCEPT !.cursor_pos = Some(point2(pos.x, pos.y)),
                  !.mouse_dragging = TRUE], None)

OnCursor(u, pos) ==
    Ret([u EXCEPT !.cursor_pos = Some(point2(pos.x, pos.y)),
                  !.mouse_dragging = u.mouse_pressed], None)

\* Mutant: the recorded position survives the cursor leaving the window.
OnCursorLeaveKeepsPos(u) == Ret(u, None)

OnCursorLeave(u) == Ret([u EXCEPT !.cursor_pos = None], None)

OnButtonPressLeft(u) == Ret([u EXCEPT !.mouse_pressed = TRUE], None)

\* Mutant: a drag does not suppress the click.
OnButtonReleaseLeftIgnoresDrag(u) ==
    IF IsSome(u.cursor_pos) /\ IsSome(Position(u.buttons, Unwrap(u.cursor_pos)))
    THEN Ret(u, Some(Button(Unwrap(Position(u.buttons, Unwrap(u.cursor_pos))))))
    ELSE Ret([u EXCEPT !.mouse_pressed = FALSE, !.mouse_dragging = FALSE], None)

\* Mutant: only mouse_pressed is cleared.
OnButtonReleaseLeftKeepsDrag(u) ==
    IF /\ IsSome(u.cursor_pos)
       /\ IsSome(Position(u.buttons, Unwrap(u.cursor_pos)))
       /\ ~u.mouse_dragging
    THEN Ret(u, Some(Button(Unwrap(Position(u.buttons, Unwrap(u.cursor_pos))))))
    ELSE Ret([u EXCEPT !.mouse_pressed = FALSE], None)

\* The early return leaves both flags as they were.
OnButtonReleaseLeft(u) ==
    IF /\ IsSome(u.cursor_pos)
       /\ IsSome(Position(u.buttons, Unwrap(u.cursor_pos)))
       /\ ~u.mouse_dragging
    THEN Ret(u, Some(Button(Unwrap(Position(u.buttons, Unwrap(u.cursor_pos))))))
    ELSE Ret([u EXCEPT !.mouse_pressed = FALSE, !.mouse_dragging = FALSE], None)

process_event(u, ev) ==
    CASE ev.kind = "CloseRequested" -> OnCloseRequested(u)
      [] ev.kind \in {"CursorEnter", "CursorMove"} -> OnCursor(u, Unwrap(ev.pos))
      [] ev.kind = "CursorLeave" -> OnCursorLeave(u)
      [] ev.kind = "ButtonPress" /\ ev.button = "Left" -> OnButtonPressLeft(u)
      [] ev.kind = "ButtonRelease" /\ ev.button = "Left" -> OnButtonReleaseLeft(u)
      [] OTHER -> Ret(u, None)

---------------------------------------------------------------------------
(* X11Window: native events and their conversion. *)

KEYCODE_ESC == 9

\* KeyButMask: the modifier bits of a key event's state.
Modifiers == {"SHIFT", "LOCK", "CONTROL", "MOD1", "MOD2", "MOD3", "MOD4", "MOD5"}

XClientMessage(atom) == XEv("ClientMessage", "dialog", 0, {}, atom, 0, 0, 0, "")
XKeyPress(window, detail, state) == XEv("KeyPress", window, detail, state, "", 0, 0, 0, "")
XExpose(count) == XEv("Expose", "dialog", 0, {}, "", count, 0, 0, "")
XEnterNotify(ex, ey) == XEv("EnterNotify", "dialog", 0, {}, "", 0, ex, ey, "")
XLeaveNotify == XEv("LeaveNotify", "dialog", 0, {}, "", 0, 0, 0, "")
XMotionNotify(ex, ey) == XEv("MotionNotify", "dialog", 0, {}, "", 0, ex, ey, "")
XButtonPress(detail) == XEv("ButtonPress", "dialog", detail, {}, "", 0, 0, 0, "")
XButtonRelease(detail) == XEv("ButtonRelease", "dialog", detail, {}, "", 0, 0, 0, "")
XKeyRelease(detail) == XEv("KeyRelease", "dialog", detail, {}, "", 0, 0, 0, "")
\* The error the server answers a failed request with.
XError(request) == XEv("Error", "dialog", 0, {}, "", 0, 0, 0, request)

mouse_button(detail) ==
    CASE detail = 1 -> Some("Left")
      [] detail = 2 -> Some("Middle")
      [] detail = 3 -> Some("Right")
      [] OTHER -> None

\* Mutant: Alt (MOD1) is left out of the mask.
EscClosesWithoutMod1(press) ==
    /\ press.window = "dialog"
    /\ press.detail = KEYCODE_ESC
    /\ press.state \cap {"CONTROL", "SHIFT"} = {}

\* The guard of the KeyPress arm: Escape on this window, with none of
\* CONTROL | SHIFT | MOD1 in the state.
EscCloses(press) ==
    /\ press.window = "dialog"
    /\ press.detail = KEYCODE_ESC
    /\ press.state \cap {"CONTROL", "SHIFT", "MOD1"} = {}

cvt_event(ev) ==
    CASE ev.type = "ClientMessage" /\ ev.atom = "WM_DELETE_WINDOW" -> Some(CloseRequested)
      [] ev.type = "KeyPress" /\ EscCloses(ev) -> Some(CloseRequested)
      [] ev.type = "Expose" /\ ev.count = 0 -> Some(RedrawRequested)
      [] ev.type = "EnterNotify" -> Some(CursorEnter(point2(ev.x, ev.y)))
      [] ev.type = "LeaveNotify" -> Some(CursorLeave)
      [] ev.type = "MotionNotify" -> Some(CursorMove(point2(ev.x, ev.y)))
      [] ev.type = "ButtonPress" /\ IsSome(mouse_button(ev.detail)) ->
            Some(ButtonPress(Unwrap(mouse_button(ev.detail))))
      [] ev.type = "ButtonRelease" /\ IsSome(mouse_button(ev.detail)) ->
            Some(ButtonRelease(Unwrap(mouse_button(ev.detail))))
      [] OTHER -> None

---------------------------------------------------------------------------
(* The inputs the layout is explored on. *)

IconSizes == {size2(32 * k, 48 * k) : k \in 0..MaxIconK}
MessageSizes == {size2(171 * k, h) : k \in 0..MaxMsgK, h \in {0, 21, 90}}
LabelSizes == {size2(97 * k, h) : k \in 0..MaxLabelK, h \in {14, 18}}

RECURSIVE SeqsUpTo(_, _)
SeqsUpTo(S, n) ==
    IF n = 0 THEN {<<>>}
    ELSE LET shorter == SeqsUpTo(S, n - 1)
         IN  shorter \cup {Append(s, x) : s \in {t \in shorter : Len(t) = n - 1}, x \in S}

LabelLists == SeqsUpTo(LabelSizes, MaxButtons)

LayoutInputs ==
    {[icon |-> i, message |-> m, labels |-> l] :
        i \in IconSizes, m \in MessageSizes, l \in LabelLists}

---------------------------------------------------------------------------
(* The values the variables of the other parts rest at. *)

UiIdle ==
    /\ event = None /\ answer = None /\ pre = NoPre /\ ptr = None
    /\ held = "none" /\ sincePress = "none" /\ drag0 = "no"

CvtIdle == xev = None /\ wev = None

SessionIdle ==
    /\ pc = "idle" /\ queue = <<>> /\ failed = {} /\ discarded = {} /\ result = None
    /\ status = None

RenderIdle ==
    /\ text = <<>> /\ max_width = 0 /\ idx = 1 /\ lay = NoLay /\ was = NoLay
    /\ bounds = None

---------------------------------------------------------------------------
(* The layout alone: Ui::new applied to every input. *)

InitLayout ==
    /\ stage = "args"
    /\ inputs \in LayoutInputs
    /\ ui = NoUi
    /\ UiIdle /\ CvtIdle /\ SessionIdle /\ RenderIdle

\* Ui::new returns the laid-out struct.
New ==
    /\ stage = "args"
    /\ Len(inputs.labels) > 0
    /\ ui' = UiNew(inputs)
    /\ stage' = "built"
    /\ UNCHANGED <<inputs, uiVars, cvtVars, sessionVars, renderVars>>

\* Ui::new divides by buttons.len() = 0 and panics.
NewPanics ==
    /\ stage = "args"
    /\ Len(inputs.labels) = 0
    /\ stage' = "panicked"
    /\ UNCHANGED <<inputs, ui, uiVars, cvtVars, sessionVars, renderVars>>

NextLayout == New \/ NewPanics

SpecLayout == InitLayout /\ [][NextLayout]_vars

---------------------------------------------------------------------------
(* Rectangles, half-open: [x0, x1) x [y0, y1). *)

Rect(pos, size) ==
    [x0 |-> pos.x, y0 |-> pos.y, x1 |-> pos.x + size.width, y1 |-> pos.y + size.height]

Min(a, b) == IF a <= b THEN a ELSE b

\* The two rectangles share a point.
Intersects(a, b) ==
    /\ Max(a.x0, b.x0) < Min(a.x1, b.x1)
    /\ Max(a.y0, b.y0) < Min(a.y1, b.y1)

\* Every point of a lies in [0, size.width) x [0, size.height).
Within(a, size) ==
    /\ 0 <= a.x0 /\ a.x0 <= a.x1 /\ a.x1 <= size.width
    /\ 0 <= a.y0 /\ a.y0 <= a.y1 /\ a.y1 <= size.height

ButtonRect(k) == Rect(ui.buttons[k].pos, ui.buttons[k].size)
Count == Len(ui.buttons)

\* The width the button row takes, window padding included.
RowWidth ==
    ui.buttons[1].size.width * Count + SPACING * (Count - 1) + 2 * WINDOW_PADDING

\* The natural minimum of the button row.
RequiredWidth == SumWidths(ui.buttons) + 2 * WINDOW_PADDING + SPACING * (Count - 1)

\* The window is exactly as wide as the button row's natural minimum.
RowGoverns == ui.canvas.width = RequiredWidth

---------------------------------------------------------------------------
\* C6: in every layout Ui::new produces, every button's rectangle lies fully
\* within the window and no two buttons' rectangles intersect.
ButtonContainment ==
    stage = "built" =>
        \A k \in 1..Count :
            /\ Within(ButtonRect(k), ui.canvas)
            /\ \A j \in 1..Count : j # k => ~Intersects(ButtonRect(j), ButtonRect(k))

\* A row of MaxButtons unequal buttons that sets the window width.
ButtonContainmentWitness ==
    /\ stage = "built" /\ Count >= 3 /\ RowGoverns
    /\ ui.canvas.width > MIN_WIDTH
    /\ ui.buttons[1].min_size.width # ui.buttons[2].min_size.width

\* C7 as stated: the row fits in the window, and fills it exactly whenever the
\* button row's natural minimum governs the window width.
RowWidthExactWhenGoverning ==
    stage = "built" =>
        /\ RowWidth <= ui.canvas.width
        /\ RowGoverns => RowWidth = ui.canvas.width

\* C7 as amended: the row fits in the window; when the natural minimum governs,
\* the row falls short of the window by the remainder of the sum of the minimum
\* widths divided by the count, so it fills the window exactly if and only if
\* that sum is a multiple of the count.
RowWidthUpToRemainder ==
    stage = "built" =>
        /\ RowWidth <= ui.canvas.width
        /\ RowGoverns => ui.canvas.width - RowWidth = SumWidths(ui.buttons) % Count

\* The natural minimum governs and the division leaves a remainder.
RowWidthWitness ==
    /\ stage = "built" /\ Count >= 2 /\ RowGoverns
    /\ ui.canvas.width > MIN_WIDTH
    /\ SumWidths(ui.buttons) % Count # 0

\* C8: in every layout Ui::new produces, the message rectangle intersects neither
\* the icon rectangle nor the rectangle of any button.
MessageClear ==
    stage = "built" =>
        LET msg == Rect(ui.message_pos, ui.message)
        IN  /\ ~Intersects(msg, Rect(ui.icon_pos, ui.icon))
            /\ \A k \in 1..Count : ~Intersects(msg, ButtonRect(k))

\* A tall, wide message next to a real icon: the message sets the window size.
MessageClearWitness ==
    /\ stage = "built"
    /\ ui.icon.width > 0 /\ ui.icon.height > 0
    /\ ui.message.width > 0 /\ ui.message.height > ui.icon.height
    /\ ui.canvas.width > MIN_WIDTH /\ ~RowGoverns
    /\ ui.canvas.height > MIN_HEIGHT

\* C16: in every layout Ui::new produces, each button's final width is at least
\* that button's minimum width (its label's width + 2 * BTN_PADDING).
ButtonFitsLabel ==
    stage = "built" =>
        \A k \in 1..Count : ui.buttons[k].size.width >= ui.buttons[k].min_size.width

\* C18: Ui::new is total over label lists, the empty list included: the division
\* for the final button width never divides by zero.
LayoutTotal == stage # "panicked"

---------------------------------------------------------------------------
(* The dialog session's events: every WindowEvent, in any order, is given  *)
(* to process_event until it returns an Answer.                            *)

\* The label lists the sessions are opened with: the narrowest and the widest label.
SessionLabelSizes == {size2(97 * k, 18) : k \in {0, MaxLabelK}}

SessionInputs ==
    {[icon |-> size2(32, 32), message |-> size2(171, 21), labels |-> l] :
        l \in SeqsUpTo(SessionLabelSizes, MaxButtons) \ {<<>>}}

\* The point p lies in the rectangle r.
InRect(p, r) == r.x0 <= p.x /\ p.x < r.x1 /\ r.y0 <= p.y /\ p.y < r.y1

\* The pointer positions the server reports: each button's first and last
\* pixel, its midpoint, the pixel right of it, and a point outside every button.
ProbePoints ==
    UNION {LET r == ButtonRect(k)
           IN  {point2(r.x0, r.y0), point2(r.x1 - 1, r.y1 - 1), point2(r.x1, r.y0),
                point2(r.x0 + (r.x1 - r.x0) \div 2, r.y0 + (r.y1 - r.y0) \div 2)}
           : k \in 1..Count}
    \cup {point2(0, 0)}

\* The button (from 1) the pointer is in, 0 when in none.
PtrButton(o) ==
    IF IsSome(o) /\ \E k \in 1..Count : InRect(Unwrap(o), ButtonRect(k))
    THEN CHOOSE k \in 1..Count : InRect(Unwrap(o), ButtonRect(k))
    ELSE 0

IsCursor(ev) == ev.kind \in {"CursorEnter", "CursorMove"}
IsLeft(ev, kind) == ev.kind = kind /\ ev.button = "Left"

\* What the event sequence so far says, kept apart from the Ui's own flags.
Observe(ev) ==
    /\ ptr' = IF IsCursor(ev) THEN ev.pos ELSE IF ev.kind = "CursorLeave" THEN None ELSE ptr
    /\ held' =
         IF IsLeft(ev, "ButtonPress") THEN (IF held = "none" THEN "clean" ELSE held)
         ELSE IF IsLeft(ev, "ButtonRelease") THEN "none"
         ELSE IF IsCursor(ev) /\ held = "clean" THEN "moved"
         ELSE held
    /\ sincePress' =
         IF IsLeft(ev, "ButtonPress") THEN "clean"
         ELSE IF IsLeft(ev, "ButtonRelease") THEN "none"
         ELSE IF IsCursor(ev) /\ sincePress = "clean" THEN "moved"
         ELSE sincePress
    /\ drag0' =
         IF IsLeft(ev, "ButtonPress") THEN (IF PtrButton(ptr) = 1 THEN "pressedIn0" ELSE "no")
         ELSE IF IsLeft(ev, "ButtonRelease") THEN "no"
         ELSE IF drag0 # "no" /\ ev.kind = "CursorLeave" THEN "out"
         ELSE IF drag0 # "no" /\ IsCursor(ev) /\ PtrButton(ev.pos) = 0 THEN "out"
         ELSE drag0
    /\ pre' = [mouse_pressed |-> ui.mouse_pressed, mouse_dragging |-> ui.mouse_dragging,
               held |-> held, sincePress |-> sincePress, drag0 |-> drag0]

\* The event loop runs until process_event returns an Answer.
Running == stage = "built" /\ answer = None

\* One turn of the event loop: the event goes to process_event.
Deliver(ev) ==
    /\ ui' = process_event(ui, ev).ui
    /\ answer' = process_event(ui, ev).ret
    /\ event' = Some(ev)
    /\ Observe(ev)
    /\ UNCHANGED <<stage, inputs, cvtVars, sessionVars, renderVars>>

EvCloseRequested == Running /\ Deliver(CloseRequested)
EvCursorEnter == Running /\ \E p \in ProbePoints : Deliver(CursorEnter(p))
EvCursorMove == Running /\ \E p \in ProbePoints : Deliver(CursorMove(p))
EvCursorLeave == Running /\ Deliver(CursorLeave)
EvButtonPress == Running /\ \E b \in MouseButtons : Deliver(ButtonPress(b))
EvButtonRelease == Running /\ \E b \in MouseButtons : Deliver(ButtonRelease(b))
EvRedrawRequested == Running /\ Deliver(RedrawRequested)

Init ==
    /\ stage = "built"
    /\ inputs \in SessionInputs
    /\ ui = UiNew(inputs)
    /\ UiIdle /\ CvtIdle /\ SessionIdle /\ RenderIdle

Next ==
    \/ EvCloseRequested
    \/ EvCursorEnter
    \/ EvCursorMove
    \/ EvCursorLeave
    \/ EvButtonPress
    \/ EvButtonRelease
    \/ EvRedrawRequested

Spec == Init /\ [][Next]_vars

AnsweredButton == IsSome(answer) /\ Unwrap(answer)[1] = "Button"
Released == IsSome(event) /\ IsLeft(Unwrap(event), "ButtonRelease")

---------------------------------------------------------------------------
\* C1: in every interaction state, process_event(CloseRequested) returns
\* Answer::Closed at once.
CloseAlwaysCloses ==
    (IsSome(event) /\ Unwrap(event).kind = "CloseRequested") => answer = Some(Closed)

\* A close request that arrives in the middle of a drag over the window.
CloseAlwaysClosesWitness ==
    /\ IsSome(event) /\ Unwrap(event).kind = "CloseRequested"
    /\ IsSome(ui.cursor_pos) /\ ui.mouse_pressed /\ ui.mouse_dragging
    /\ answer = Some(Closed)

\* C2 as stated: a left release answers Button(i) only after a left press with no
\* CursorEnter or CursorMove between that press and the release.
ClickNeedsCleanPress ==
    (Released /\ AnsweredButton) => pre.sincePress = "clean"

\* C2 as amended: a left release answers Button(i) only if no CursorEnter or
\* CursorMove came while the left button was held, that is since the first left
\* press not yet followed by a release; a press need not have come before it.
ClickNeedsNoDrag ==
    (Released /\ AnsweredButton) => pre.held # "moved"

\* A release over a button answers although no press came before it.
ClickNeedsNoDragWitness ==
    Released /\ AnsweredButton /\ pre.held = "none" /\ ~pre.mouse_pressed

\* C3: after a left press inside button 0 and the cursor moving outside (CursorLeave,
\* or a move to a point in no button), a left release outside never answers Button(0).
DragOutSuppressesClick ==
    (Released /\ pre.drag0 = "out" /\ PtrButton(ptr) = 0) => answer # Some(Button(0))

\* The release after the cursor has left the window with the button held.
DragOutSuppressesClickWitness ==
    Released /\ pre.drag0 = "out" /\ ptr = None /\ pre.mouse_pressed /\ answer = None

\* C4 as stated: a left press followed by a left release inside button i, with no
\* cursor movement between the two, answers Button(i), i counted from the left.
PressReleaseClicks ==
    (Released /\ pre.sincePress = "clean" /\ PtrButton(ptr) # 0)
        => answer = Some(Button(PtrButton(ptr) - 1))

\* C4 as amended: a left release inside button i answers Button(i), i counted from
\* the left, when no cursor movement came since the first left press not yet
\* followed by a release; a press that follows an unreleased press and a move is
\* still taken for a drag.
HeldCleanClicks ==
    (Released /\ pre.held = "clean" /\ PtrButton(ptr) # 0)
        => answer = Some(Button(PtrButton(ptr) - 1))

\* A click at the midpoint of the second button.
HeldCleanClicksWitness ==
    /\ Released /\ pre.held = "clean" /\ Count >= 2
    /\ LET r == ButtonRect(2)
       IN  ptr = Some(point2(r.x0 + (r.x1 - r.x0) \div 2, r.y0 + (r.y1 - r.y0) \div 2))
    /\ answer = Some(Button(1))

\* C5 as stated: after any left release, answered or not, mouse_pressed and
\* mouse_dragging are both false.
ReleaseAlwaysClears ==
    Released => ~ui.mouse_pressed /\ ~ui.mouse_dragging

\* C5 as amended: after a left release that returns no Answer, mouse_pressed and
\* mouse_dragging are both false; a release that returns Answer::Button returns
\* before the flags are cleared and leaves both as they were.
ReleaseClearsUnlessAnswered ==
    Released =>
        IF answer = None THEN ~ui.mouse_pressed /\ ~ui.mouse_dragging
        ELSE /\ ui.mouse_pressed = pre.mouse_pressed
             /\ ui.mouse_dragging = pre.mouse_dragging

\* The release that ends a drag: both flags were set and no Answer is returned.
ReleaseClearsWitness ==
    Released /\ answer = None /\ pre.mouse_pressed /\ pre.mouse_dragging

\* C14: after CursorEnter(p) or CursorMove(p), in any state, the recorded cursor
\* position is p, mouse_dragging is the value mouse_pressed had before the event,
\* mouse_pressed is unchanged and no Answer is returned.
CursorFrame ==
    (IsSome(event) /\ IsCursor(Unwrap(event))) =>
        /\ ui.cursor_pos = Unwrap(event).pos
        /\ ui.mouse_dragging = pre.mouse_pressed
        /\ ui.mouse_pressed = pre.mouse_pressed
        /\ answer = None

\* The first move with the left button held: the drag flag goes from false to true.
CursorFrameWitness ==
    /\ IsSome(event) /\ Unwrap(event).kind = "CursorMove"
    /\ pre.mouse_pressed /\ ~pre.mouse_dragging /\ ui.mouse_dragging
    /\ ui.cursor_pos = Unwrap(event).pos /\ IsSome(ui.cursor_pos)

\* C17: in every state reached before a terminal Answer, mouse_dragging implies
\* mouse_pressed.
DraggingImpliesPressed ==
    (stage = "built" /\ answer = None) => (ui.mouse_dragging => ui.mouse_pressed)

\* A drag in progress: the left button is held and the cursor has moved.
DraggingImpliesPressedWitness ==
    /\ stage = "built" /\ answer = None
    /\ IsSome(event) /\ IsCursor(Unwrap(event))
    /\ ui.mouse_dragging /\ ui.mouse_pressed

---------------------------------------------------------------------------
(* cvt_event alone: every native event converted. *)

Keycodes == {KEYCODE_ESC, 36}
Coords == {-1, 0, 15}

InitCvt ==
    /\ stage = "args" /\ inputs = NoInputs /\ ui = NoUi
    /\ UiIdle /\ CvtIdle /\ SessionIdle /\ RenderIdle

\* No session is open: only the conversion runs.
NoSession == pc = "idle"

Convert(ev) ==
    /\ xev' = Some(ev)
    /\ wev' = cvt_event(ev)
    /\ UNCHANGED <<stage, inputs, ui, uiVars, sessionVars, renderVars>>

CvtClientMessage ==
    NoSession /\ \E a \in {"WM_DELETE_WINDOW", "_NET_WM_PING"} : Convert(XClientMessage(a))
CvtKeyPress ==
    NoSession /\ \E w \in {"dialog", "other"}, d \in Keycodes, st \in SUBSET Modifiers :
        Convert(XKeyPress(w, d, st))
CvtExpose == NoSession /\ \E c \in {0, 1} : Convert(XExpose(c))
CvtEnterNotify == NoSession /\ \E ex \in Coords, ey \in Coords : Convert(XEnterNotify(ex, ey))
CvtLeaveNotify == NoSession /\ Convert(XLeaveNotify)
CvtMotionNotify == NoSession /\ \E ex \in Coords, ey \in Coords : Convert(XMotionNotify(ex, ey))
CvtButtonPress == NoSession /\ \E d \in 1..5 : Convert(XButtonPress(d))
CvtButtonRelease == NoSession /\ \E d \in 1..5 : Convert(XButtonRelease(d))
CvtOther ==
    NoSession /\ \E ev \in {XKeyRelease(KEYCODE_ESC), XError("create_gc")} : Convert(ev)

NextCvt ==
    \/ CvtClientMessage
    \/ CvtKeyPress
    \/ CvtExpose
    \/ CvtEnterNotify
    \/ CvtLeaveNotify
    \/ CvtMotionNotify
    \/ CvtButtonPress
    \/ CvtButtonRelease
    \/ CvtOther

SpecCvt == InitCvt /\ [][NextCvt]_vars

EscOnDialog ==
    /\ IsSome(xev)
    /\ Unwrap(xev).type = "KeyPress"
    /\ Unwrap(xev).window = "dialog"
    /\ Unwrap(xev).detail = KEYCODE_ESC

\* C9 as stated: an Escape press on the dialog window becomes CloseRequested if
\* and only if no modifier is held in the key event's state.
EscClosesIffNoModifier ==
    EscOnDialog => (wev = Some(CloseRequested) <=> Unwrap(xev).state = {})

\* C9 as amended: an Escape press on the dialog window becomes CloseRequested if
\* and only if none of Control, Shift and Mod1 (Alt) is held; Lock, Mod2, Mod3,
\* Mod4 and Mod5 held do not prevent the close request.
EscClosesIffNoCtrlShiftAlt ==
    EscOnDialog =>
        (wev = Some(CloseRequested)
            <=> Unwrap(xev).state \cap {"CONTROL", "SHIFT", "MOD1"} = {})

\* Escape with Super (Mod4) and Caps Lock held still closes.
EscClosesWitness ==
    EscOnDialog /\ Unwrap(xev).state = {"MOD4", "LOCK"} /\ wev = Some(CloseRequested)

---------------------------------------------------------------------------
(* The display session: the requests of X11Window::create, with_title,     *)
(* set_contents and show, each of which the server may fail, and then the  *)
(* event loop.                                                             *)

\* The requests each function issues, in order.
CreateRequests ==
    <<"intern_atoms", "create_window", "create_gc", "wm_protocols", "size_hints",
      "wm_class", "window_type">>
TitleRequests == <<"wm_name", "net_wm_name">>
ContentsRequests == <<"put_image">>
ShowRequests == <<"map_window", "configure_window">>

\* The requests whose cookie is waited on with .check() or .reply(); the cookie
\* of the others is dropped, and their error arrives as an Error event.
Checked(r) == r \notin {"create_gc", "wm_protocols", "map_window", "configure_window"}

Range(q) == {q[k] : k \in 1..Len(q)}

\* The requests are issued in order while the server fails those in F: the
\* first checked failure returns with `?`, the unchecked ones before it queue.
RECURSIVE Run(_, _)
Run(reqs, F) ==
    IF reqs = <<>> THEN Ran(<<>>, None)
    ELSE IF Head(reqs) \notin F THEN Run(Tail(reqs), F)
    ELSE IF Checked(Head(reqs)) THEN Ran(<<>>, Some(Head(reqs)))
    ELSE Ran(<<Head(reqs)>> \o Run(Tail(reqs), F).queued, Run(Tail(reqs), F).err)

Ok(a) == <<"Ok", a>>
Err(r) == <<"Err", r>>

\* One function of the session: its requests run, and it returns Ok or Err.
Call(reqs, next) ==
    /\ \E F \in SUBSET Range(reqs) :
          LET run == Run(reqs, F)
          IN  /\ F = Range(run.queued) \cup Range(run.err)
              /\ failed' = failed \cup F
              /\ queue' = queue \o [k \in 1..Len(run.queued) |-> XError(run.queued[k])]
              /\ IF IsSome(run.err)
                 THEN result' = Some(Err(Unwrap(run.err))) /\ pc' = "done"
                 ELSE result' = result /\ pc' = next
    /\ UNCHANGED <<stage, inputs, ui, uiVars, cvtVars, discarded, status, renderVars>>

Create == pc = "create" /\ Call(CreateRequests, "with_title")
WithTitle == pc = "with_title" /\ Call(TitleRequests, "set_contents")
SetContents == pc = "set_contents" /\ Call(ContentsRequests, "show")
Show == pc = "show" /\ Call(ShowRequests, "loop")

\* The native events of a session: a close, Escape, an expose, the pointer over
\* each button's midpoint and over the window corner, left and right clicks.
SessionXEvents ==
    {XClientMessage("WM_DELETE_WINDOW"), XKeyPress("dialog", KEYCODE_ESC, {}),
     XExpose(0), XLeaveNotify, XKeyRelease(KEYCODE_ESC)}
    \cup {XButtonPress(d) : d \in {1, 3}} \cup {XButtonRelease(d) : d \in {1, 3}}
    \cup {XMotionNotify(0, 0), XEnterNotify(0, 0)}
    \cup {LET r == ButtonRect(k)
          IN  XMotionNotify(r.x0 + (r.x1 - r.x0) \div 2, r.y0 + (r.y1 - r.y0) \div 2)
          : k \in 1..Count}

\* wait_for_event reads the error of an unchecked request: cvt_event turns it
\* into None and the loop reads on.
LoopError ==
    /\ pc = "loop"
    /\ queue # <<>>
    /\ xev' = Some(Head(queue))
    /\ wev' = cvt_event(Head(queue))
    /\ queue' = Tail(queue)
    /\ IF cvt_event(Head(queue)) = None
       THEN discarded' = discarded \cup {Head(queue).request} /\ UNCHANGED <<pc, result>>
       ELSE discarded' = discarded /\ pc' = "done"
            /\ result' = Some(Err(Head(queue).request))
    /\ UNCHANGED <<stage, inputs, ui, uiVars, failed, status, renderVars>>

\* wait_for_event reads an input event; an event cvt_event keeps goes to
\* process_event, an Answer ends the session, and otherwise the canvas is
\* redrawn and uploaded with set_contents, which the server may fail.
LoopInput ==
    /\ pc = "loop"
    /\ \E ev \in SessionXEvents, uploaded \in BOOLEAN :
          /\ xev' = Some(ev)
          /\ wev' = cvt_event(ev)
          /\ IF cvt_event(ev) = None
             THEN uploaded /\ UNCHANGED <<ui, event, answer, pc, result, failed>>
             ELSE LET r == process_event(ui, Unwrap(cvt_event(ev)))
                  IN  /\ ui' = r.ui
                      /\ event' = cvt_event(ev)
                      /\ answer' = r.ret
                      /\ IF IsSome(r.ret)
                         THEN /\ uploaded
                              /\ result' = Some(Ok(Unwrap(r.ret)))
                              /\ pc' = "done"
                              /\ failed' = failed
                         ELSE IF uploaded
                         THEN UNCHANGED <<pc, result, failed>>
                         ELSE /\ result' = Some(Err("put_image"))
                              /\ pc' = "done"
                              /\ failed' = failed \cup {"put_image"}
    /\ UNCHANGED <<stage, inputs, pre, ptr, held, sincePress, drag0, queue, discarded,
                   status, renderVars>>

\* `i as i32` on a usize: the low 32 bits, read as a signed number.
as_i32(i) == IF i <= 2147483647 THEN i ELSE ((i - 2147483647) - 2147483647) - 2

\* process::exit(code): the status the parent reads is the low 8 bits.
exit(code) == code % 256

\* Mutant: a closed dialog is reported as status 0.
runClosedIsZero(res) ==
    IF res[1] # "Ok" THEN res
    ELSE IF res[2] = Closed THEN Ok(0)
    ELSE Ok(as_i32(res[2][2]))

\* run(), given what Builder::show returned: `?` passes the Error on, and the
\* match turns the Answer into the exit status.
run(res) ==
    IF res[1] # "Ok" THEN res
    ELSE IF res[2] = Closed THEN Ok(50)
    ELSE Ok(as_i32(res[2][2]))

\* main(): the status the process exits with.
main(res) == IF run(res)[1] = "Ok" THEN exit(run(res)[2]) ELSE exit(100)

\* The process exits once show() has returned.
Exit ==
    /\ pc = "done"
    /\ IsSome(result)
    /\ status' = Some(main(Unwrap(result)))
    /\ pc' = "exited"
    /\ UNCHANGED <<stage, inputs, ui, uiVars, cvtVars, queue, failed, discarded, result,
                   renderVars>>

\* The dialogs the sessions show: one to MaxButtons buttons with the narrowest label.
SessionDialogs ==
    {[icon |-> size2(32, 32), message |-> size2(171, 21), labels |-> l] :
        l \in SeqsUpTo({size2(0, 18)}, MaxButtons) \ {<<>>}}

InitSession ==
    /\ stage = "built"
    /\ inputs \in SessionDialogs
    /\ ui = UiNew(inputs)
    /\ UiIdle /\ CvtIdle /\ RenderIdle
    /\ pc = "create" /\ queue = <<>> /\ failed = {} /\ discarded = {} /\ result = None
    /\ status = None

NextSession ==
    \/ Create
    \/ WithTitle
    \/ SetContents
    \/ Show
    \/ LoopError
    \/ LoopInput
    \/ Exit

SpecSession == InitSession /\ [][NextSession]_vars

\* C10: whenever the server fails a request of the session, the session ends
\* with an Error, and no request failure is dropped while the event loop runs on.
RequestFailureEndsSession ==
    /\ discarded = {}
    /\ (pc = "done" /\ failed # {}) => (IsSome(result) /\ Unwrap(result)[1] = "Err")

\* C11: the exit status is i for Answer::Button(i), 50 for Answer::Closed and 100
\* when showing the dialog returned an Error; a button answer never exits with
\* the status of a closed dialog.
ExitStatusOfAnswer ==
    IsSome(status) =>
        LET res == Unwrap(result)
        IN  /\ res[1] = "Err" => status = Some(100)
            /\ res = Ok(Closed) => status = Some(50)
            /\ \A i \in 0..(Count - 1) :
                  res = Ok(Button(i)) => status = Some(i) /\ status # Some(50)

\* The process exits after a click on the third button.
ExitStatusWitness ==
    /\ pc = "exited" /\ Count >= 3
    /\ result = Some(Ok(Button(2))) /\ status = Some(2)

---------------------------------------------------------------------------
(* The glyph renderer: Renderer::layout, one character at a time, and the  *)
(* bounds Renderer::finish takes of the glyphs. Positions are whole pixels.*)

\* The longest text laid out.
MaxTextLen == 5

ZWSP == "ZWSP"

\* The characters of the texts: a narrow and a wide letter, a space, a
\* non-breaking space, a zero-width space and a line feed.
Chars == {"a", "W", " ", "NBSP", ZWSP, "LF"}

\* The font's table: the advance of each character's glyph ...
h_advance(c) ==
    CASE c = "a" -> 2
      [] c = "W" -> 3
      [] c \in {" ", "NBSP"} -> 1
      [] OTHER -> 0

\* ... and the kerning of a pair of glyphs.
kern(a, b) == IF a = "W" /\ b = "a" THEN -1 ELSE 0

\* font.height() + font.line_gap()
LineAdvance == 4

\* outline_glyph gives no outline for the glyph of white space.
has_outline(c) == c \in {"a", "W"}

\* Mutant: a non-breaking space is a break opportunity too.
IsBreakOpportunityOrNbsp(c) == c = " " \/ c = ZWSP \/ c = "NBSP"

\* `c == ' ' || c == ZWSP`
IsBreakOpportunity(c) == c = " " \/ c = ZWSP

\* Mutant: the soft break keeps last_softbreak.
soft_break_keeps_opportunity(L, pushed, adv, c, k) ==
    LET i == Unwrap(L.last_softbreak)
        y == L.pen_y + LineAdvance
        x_diff == IF i < Len(pushed) THEN pushed[i + 1].x ELSE 0
    IN  [L EXCEPT !.pen_x = adv - x_diff, !.pen_y = y, !.last = Some(c),
                  !.glyphs = [j \in 1..Len(pushed) |->
                                 IF j > i THEN Glyph(pushed[j].x - x_diff, y, pushed[j].char)
                                 ELSE pushed[j]],
                  !.placed_x = adv, !.moved = Some(i), !.broke_at = k,
                  !.softbreaks = @ + 1]

\* The soft break: the glyphs from index i (from 0) on move to the next line.
soft_break(L, pushed, adv, c, k) ==
    LET i == Unwrap(L.last_softbreak)
        y == L.pen_y + LineAdvance
        x_diff == IF i < Len(pushed) THEN pushed[i + 1].x ELSE 0
    IN  [L EXCEPT !.pen_x = adv - x_diff, !.pen_y = y, !.last = Some(c),
                  !.last_softbreak = None,
                  !.glyphs = [j \in 1..Len(pushed) |->
                                 IF j > i THEN Glyph(pushed[j].x - x_diff, y, pushed[j].char)
                                 ELSE pushed[j]],
                  !.placed_x = adv, !.moved = Some(i), !.broke_at = k,
                  !.softbreaks = @ + 1]

\* The body of `for c in line.chars()`, for the character c at position k of
\* the text, with max_width mw.
layout_char(L, c, mw, k) ==
    LET kerned == IF IsSome(L.last) THEN L.pen_x + kern(Unwrap(L.last), c) ELSE L.pen_x
        adv == kerned + h_advance(c)
        pushed == Append(L.glyphs, Glyph(kerned, L.pen_y, c))
    IN  IF IsBreakOpportunity(c)
        THEN [L EXCEPT !.pen_x = adv, !.last = Some(c),
                       !.last_softbreak = Some(Len(L.glyphs)),
                       !.placed_x = adv, !.moved = None]
        ELSE IF adv > mw /\ IsSome(L.last_softbreak)
        THEN soft_break(L, pushed, adv, c, k)
        ELSE [L EXCEPT !.pen_x = adv, !.last = Some(c), !.glyphs = pushed,
                       !.placed_x = adv, !.moved = None]

\* The end of a hard line, and the locals of the next one.
line_end(L) ==
    [L EXCEPT !.pen_x = 0, !.pen_y = @ + LineAdvance, !.last_softbreak = None,
              !.last = None, !.broke_at = 0]

\* str::lines(): every line feed ends a line, and so does the end of a text
\* that does not end in a line feed.
Unterminated(txt) == txt # <<>> /\ txt[Len(txt)] # "LF"

\* Renderer::layout from position k on.
RECURSIVE layout_from(_, _, _, _)
layout_from(L, txt, mw, k) ==
    IF k > Len(txt) THEN (IF Unterminated(txt) THEN line_end(L) ELSE L)
    ELSE IF txt[k] = "LF" THEN layout_from(line_end(L), txt, mw, k + 1)
    ELSE layout_from(layout_char(L, txt[k], mw, k), txt, mw, k + 1)

layout(txt, mw) == layout_from(NoLay, txt, mw, 1)

\* The union of the pixel bounds of the glyphs that have an outline; a glyph's
\* box is taken as its advance wide and one line high.
glyph_bounds(glyphs) ==
    LET seen == {j \in 1..Len(glyphs) : has_outline(glyphs[j].char)}
        x0 == CHOOSE v \in {glyphs[j].x : j \in seen} :
                  \A j \in seen : v <= glyphs[j].x
        x1 == CHOOSE v \in {glyphs[j].x + h_advance(glyphs[j].char) : j \in seen} :
                  \A j \in seen : v >= glyphs[j].x + h_advance(glyphs[j].char)
        y0 == CHOOSE v \in {glyphs[j].y : j \in seen} : \A j \in seen : v <= glyphs[j].y
        y1 == CHOOSE v \in {glyphs[j].y : j \in seen} : \A j \in seen : v >= glyphs[j].y
    IN  IF seen = {} THEN size2(0, 0) ELSE size2(x1 - x0, y1 - y0 + LineAdvance)

Texts == SeqsUpTo(Chars, MaxTextLen)
Widths == {3, 5}

InitRender ==
    /\ stage = "layout" /\ inputs = NoInputs /\ ui = NoUi
    /\ UiIdle /\ CvtIdle /\ SessionIdle
    /\ text \in Texts
    /\ max_width \in Widths
    /\ idx = 1 /\ lay = NoLay /\ was = NoLay /\ bounds = None

\* One turn of the inner loop.
LayoutChar ==
    /\ stage = "layout"
    /\ idx <= Len(text)
    /\ text[idx] # "LF"
    /\ lay' = layout_char(lay, text[idx], max_width, idx)
    /\ was' = lay
    /\ idx' = idx + 1
    /\ UNCHANGED <<stage, inputs, ui, uiVars, cvtVars, sessionVars, text, max_width, bounds>>

\* The inner loop ends at a line feed.
LayoutLineEnd ==
    /\ stage = "layout"
    /\ idx <= Len(text)
    /\ text[idx] = "LF"
    /\ lay' = line_end(lay)
    /\ was' = lay
    /\ idx' = idx + 1
    /\ UNCHANGED <<stage, inputs, ui, uiVars, cvtVars, sessionVars, text, max_width, bounds>>

\* The outer loop ends and layout returns the glyphs.
LayoutReturn ==
    /\ stage = "layout"
    /\ idx = Len(text) + 1
    /\ lay' = IF Unterminated(text) THEN line_end(lay) ELSE lay
    /\ stage' = "laid"
    /\ UNCHANGED <<inputs, ui, uiVars, cvtVars, sessionVars, text, max_width, idx, was,
                   bounds>>

\* Renderer::finish reduces the glyphs' bounds.
Finish ==
    /\ stage = "laid"
    /\ bounds' = Some(glyph_bounds(lay.glyphs))
    /\ stage' = "bounds"
    /\ UNCHANGED <<inputs, ui, uiVars, cvtVars, sessionVars, text, max_width, idx, lay,
                   was>>

NextRender == LayoutChar \/ LayoutLineEnd \/ LayoutReturn \/ Finish

SpecRender == InitRender /\ [][NextRender]_vars

\* The last step laid out a character of a line: text[idx - 1], on the locals `was`.
CharLaid == stage = "layout" /\ idx > 1 /\ text[idx - 1] # "LF"

\* The pen x after that character was placed, before any soft break.
PenAfter ==
    LET c == text[idx - 1]
    IN  was.pen_x + (IF IsSome(was.last) THEN kern(Unwrap(was.last), c) ELSE 0)
            + h_advance(c)

\* The positions before k of the spaces and zero-width spaces of k's hard line
\* that come after the line's last soft break.
Opportunities(k) ==
    {p \in 1..(k - 1) :
        /\ text[p] \in {" ", ZWSP}
        /\ \A q \in p..(k - 1) : text[q] # "LF"
        /\ p > was.broke_at}

\* The number of glyphs placed for the characters before position p.
GlyphsBefore(p) == Cardinality({q \in 1..(p - 1) : text[q] \notin {" ", ZWSP, "LF"}})

\* The soft break of the last step moved the glyphs from the one placed after
\* the latest opportunity on to the next baseline, the first of them to x = 0
\* and the others by as much; the glyphs before it stayed.
MovedToNextLine ==
    LET i == Unwrap(lay.moved)
        latest == CHOOSE p \in Opportunities(idx - 1) :
                      \A q \in Opportunities(idx - 1) : q <= p
        old == Append(was.glyphs, Glyph(PenAfter - h_advance(text[idx - 1]), was.pen_y,
                                        text[idx - 1]))
    IN  /\ i = GlyphsBefore(latest)
        /\ Len(lay.glyphs) = Len(old) /\ i < Len(old)
        /\ \A j \in 1..i : lay.glyphs[j] = old[j]
        /\ lay.glyphs[i + 1].x = 0
        /\ \A j \in (i + 1)..Len(old) :
              /\ lay.glyphs[j].y = was.pen_y + LineAdvance
              /\ lay.glyphs[j].x = old[j].x - old[i + 1].x
              /\ lay.glyphs[j].char = old[j].char
        /\ lay.pen_y = was.pen_y + LineAdvance

\* C15 as stated: a soft break is performed exactly when, after a visible glyph
\* is placed, the pen x exceeds max_width and a break opportunity was recorded on
\* the hard line since the last soft break; the break moves the glyphs from the
\* recorded index on to the next baseline, the first at x = 0.
SoftBreakAfterVisibleGlyph ==
    CharLaid =>
        /\ IsSome(lay.moved) <=>
              /\ has_outline(text[idx - 1])
              /\ PenAfter > max_width
              /\ Opportunities(idx - 1) # {}
        /\ IsSome(lay.moved) => MovedToNextLine

\* C15 as amended: the same, after any glyph that is placed, which is every
\* character but the space and the zero-width space: a non-breaking space has no
\* outline, yet it is placed and a soft break can follow it.
SoftBreakAfterPlacedGlyph ==
    CharLaid =>
        /\ IsSome(lay.moved) <=>
              /\ text[idx - 1] \notin {" ", ZWSP}
              /\ PenAfter > max_width
              /\ Opportunities(idx - 1) # {}
        /\ IsSome(lay.moved) => MovedToNextLine

\* The second soft break of a hard line: the glyph that stays last on the line
\* above is not the first of that line and ends beyond max_width, having had no
\* opportunity to break at.
SoftBreakWitness ==
    /\ CharLaid /\ IsSome(lay.moved) /\ lay.softbreaks = 2 /\ was.broke_at > 0
    /\ Unwrap(lay.moved) >= 1
    /\ LET g == lay.glyphs[Unwrap(lay.moved)]
       IN  g.x > 0 /\ g.x + h_advance(g.char) > max_width
    /\ lay.glyphs[Unwrap(lay.moved) + 1].x = 0

\* Stands for f32::MAX, the max_width of a renderer that was given none: wider
\* than any text laid out here.
f32_MAX == 3 * MaxTextLen + 1

\* A single line that has non-breaking spaces and no other white space.
NbspLine(txt) ==
    /\ \E k \in 1..Len(txt) : txt[k] = "NBSP"
    /\ \A k \in 1..Len(txt) : txt[k] \notin {" ", ZWSP, "LF"}

\* The same line with c at the positions of its non-breaking spaces.
Subst(txt, c) == [k \in 1..Len(txt) |-> IF txt[k] = "NBSP" THEN c ELSE txt[k]]

\* layout soft-breaks txt at max_width mw.
SoftBroken(txt, mw) == layout(txt, mw).softbreaks > 0

\* The pen x after the k-th character of the line txt when nothing is broken.
LinePen(txt, k) == layout(SubSeq(txt, 1, k), f32_MAX).placed_x

\* Some character of the line txt that is no space or zero-width space comes after
\* one and leaves the pen x beyond mw.
GlyphBeyondAfterSpace(txt, mw) ==
    \E k \in 1..Len(txt) :
        /\ txt[k] \notin {" ", ZWSP}
        /\ \E j \in 1..(k - 1) : txt[j] \in {" ", ZWSP}
        /\ LinePen(txt, k) > mw

\* C12 as stated: a line whose only white space is non-breaking spaces is never
\* soft-broken, however far the pen x exceeds max_width, while the same line with
\* plain spaces or with zero-width spaces in those positions is soft-broken at
\* the same max_width.
NbspLineUnbrokenOthersBroken ==
    (stage = "laid" /\ NbspLine(text) /\ lay.placed_x > max_width) =>
        /\ lay.softbreaks = 0
        /\ SoftBroken(Subst(text, " "), max_width)
        /\ SoftBroken(Subst(text, ZWSP), max_width)

\* C12 as amended: such a line is never soft-broken; the line with plain spaces
\* or zero-width spaces in those positions is soft-broken exactly when one of its
\* own glyphs after the first of those positions leaves the pen x beyond
\* max_width, which takes more than the line of non-breaking spaces being too
\* wide: a glyph has to follow the space, and zero-width spaces make the line
\* narrower.
NbspLineUnbroken ==
    (stage = "laid" /\ NbspLine(text)) =>
        /\ lay.softbreaks = 0 /\ lay.last_softbreak = None
        /\ \A c \in {" ", ZWSP} :
              SoftBroken(Subst(text, c), max_width)
                  <=> GlyphBeyondAfterSpace(Subst(text, c), max_width)

\* A line with a non-breaking space between two glyphs ends beyond max_width
\* unbroken, and is broken with a plain space and with a zero-width space.
NbspLineWitness ==
    /\ stage = "laid" /\ NbspLine(text) /\ lay.placed_x > max_width
    /\ has_outline(text[1]) /\ has_outline(text[Len(text)])
    /\ lay.softbreaks = 0
    /\ SoftBroken(Subst(text, " "), max_width)
    /\ SoftBroken(Subst(text, ZWSP), max_width)

---------------------------------------------------------------------------
(* A message of one unbreakable token, from the bounds of its glyphs to the *)
(* upload of the canvas: Renderer::finish makes the surface, Ui::new sizes  *)
(* the window around it, set_contents hands the canvas's size to put_image. *)

\* u16::MAX
U16_MAX == 65535

\* `as u16` of a float: saturating.
as_u16(v) == IF v < 0 THEN 0 ELSE IF v > U16_MAX THEN U16_MAX ELSE v

\* `message_space`: the max_width the message is rendered at.
message_space(icon) == MIN_WIDTH - (icon.width + WINDOW_PADDING + SPACING) - WINDOW_PADDING

\* What the window adds to the message's width.
Frame(icon) == icon.width + SPACING + 2 * WINDOW_PADDING

\* The token has no break opportunity and stays on one line, so the bounds of
\* its glyphs are as wide as the token: widths around message_space, around
\* u16::MAX and around u16::MAX less the frame.
TokenWidths ==
    {b + d : b \in {message_space(i) : i \in IconSizes} \cup {U16_MAX}
                       \cup {U16_MAX - Frame(i) : i \in IconSizes},
             d \in -1..1}

TokenHeights == {m.height : m \in MessageSizes} \ {0}

InitOverflow ==
    /\ stage = "bounds"
    /\ \E i \in IconSizes, l \in LabelLists \ {<<>>} :
          inputs = [icon |-> i, message |-> size2(0, 0), labels |-> l]
    /\ \E w \in TokenWidths, h \in TokenHeights : bounds = Some(size2(w, h))
    /\ ui = NoUi
    /\ UiIdle /\ CvtIdle /\ SessionIdle
    /\ text = <<>> /\ max_width = 0 /\ idx = 1 /\ lay = NoLay /\ was = NoLay

\* Renderer::finish makes the surface of the message from the bounds.
Surface ==
    /\ stage = "bounds"
    /\ inputs' = [inputs EXCEPT !.message = size2(as_u16(Unwrap(bounds).width),
                                                  as_u16(Unwrap(bounds).height))]
    /\ stage' = "args"
    /\ UNCHANGED <<ui, uiVars, cvtVars, sessionVars, renderVars>>

\* set_contents: both sizes of the canvas convert to u16.
PutImage ==
    /\ stage = "built"
    /\ ui.canvas.width \in 0..U16_MAX /\ ui.canvas.height \in 0..U16_MAX
    /\ stage' = "uploaded"
    /\ UNCHANGED <<inputs, ui, uiVars, cvtVars, sessionVars, renderVars>>

\* set_contents: `try_into().unwrap()` panics on a size that does not.
PutImagePanics ==
    /\ stage = "built"
    /\ ~(ui.canvas.width \in 0..U16_MAX /\ ui.canvas.height \in 0..U16_MAX)
    /\ stage' = "panicked"
    /\ UNCHANGED <<inputs, ui, uiVars, cvtVars, sessionVars, renderVars>>

NextOverflow == Surface \/ New \/ PutImage \/ PutImagePanics

SpecOverflow == InitOverflow /\ [][NextOverflow]_vars

\* The token is wider than the width the message is rendered at.
TokenTooWide == Unwrap(bounds).width > message_space(inputs.icon)

\* C13: for a message of one unbreakable token wider than the message's width
\* budget, nothing panics, whatever the token's width: the rendered message is
\* wider than the budget, the window is wide enough to hold it, and the
\* canvas's width and height convert to u16.
LongTokenNoCrash ==
    (IsSome(bounds) /\ TokenTooWide) =>
        /\ stage # "panicked"
        /\ stage \in {"built", "uploaded"} =>
              /\ ui.message.width > message_space(ui.icon)
              /\ ui.canvas.width >= Frame(ui.icon) + ui.message.width
              /\ ui.canvas.width \in 0..U16_MAX
              /\ ui.canvas.height \in 0..U16_MAX

====
